---- MODULE Spec2Model ----
(***************************************************************************)
(* Model of scripts/smart_updater.py: the incremental content updater.     *)
(*                                                                         *)
(* Three specifications share the definitions translated from the source:    *)
(*   Spec       the updater run after run (smart_update) against the       *)
(*              persisted file data/content.json;                          *)
(*   FairSpec   Spec with weak fairness on the steps of a run (a started   *)
(*              run is sequential code that runs to completion);           *)
(*   MergeSpec  the dedup-and-prepend loop of smart_update applied twice   *)
(*              to arbitrary candidate and existing lists.                 *)
(*                                                                         *)
(* An item is a Python dict: a function whose DOMAIN is the set of keys it *)
(* has, so that `k in item` is  k \in DOMAIN item.                         *)
(***************************************************************************)
EXTENDS Integers, Sequences, FiniteSets, TLC

\* ---------------------------------------------------------------- bounds
MaxExisting == 1      \* longest existing list drawn in MergeSpec
MaxCands == 2         \* longest candidate list drawn in MergeSpec
MaxClock == 4         \* last clock tick at which a run may start
TicksPerDay == 2      \* clock ticks in one calendar date
MaxResp == 2          \* longest response of the video search

\* ------------------------------------------------------------- universes
Fields == {"content", "url"}
Vals == {"A", "B"}
Keys == Fields
Items == UNION {[D -> Vals] : D \in SUBSET Fields}
Titles == {"X", "Y"}
VideoIds == {"v1", "v2"}

SeqsUpTo(S, n) == UNION {[1..k -> S] : k \in 0..n}

Reverse(s) == [i \in 1..Len(s) |-> s[Len(s) + 1 - i]]

Range(s) == {s[i] : i \in 1..Len(s)}

\* --------------------------------------------------------------- dedup
Has(item, k) == k \in DOMAIN item

\* is_duplicate without the url fallback
is_duplicate_no_url(item, existing_items, key) ==
    \E i \in 1..Len(existing_items) :
        /\ Has(item, key) /\ Has(existing_items[i], key)
        /\ item[key] = existing_items[i][key]

\* is_duplicate with `if` in place of `elif`: url compared whatever the key
is_duplicate_url_always(item, existing_items, key) ==
    \E i \in 1..Len(existing_items) :
        \/ /\ Has(item, key) /\ Has(existing_items[i], key)
           /\ item[key] = existing_items[i][key]
        \/ /\ Has(item, "url") /\ Has(existing_items[i], "url")
           /\ item["url"] = existing_items[i]["url"]

\* is_duplicate comparing with .get(): two missing fields compare equal
is_duplicate_get(item, existing_items, key) ==
    \E i \in 1..Len(existing_items) :
        \/ Has(item, key) = Has(existing_items[i], key)
           /\ (Has(item, key) => item[key] = existing_items[i][key])
        \/ /\ Has(item, "url") /\ Has(existing_items[i], "url")
           /\ item["url"] = existing_items[i]["url"]

\* is_duplicate with `return False` inside the loop: only the first item is looked at
is_duplicate_first_only(item, existing_items, key) ==
    /\ Len(existing_items) > 0
    /\ LET existing == existing_items[1] IN
         IF Has(item, key) /\ Has(existing, key)
         THEN item[key] = existing[key]
         ELSE /\ Has(item, "url") /\ Has(existing, "url")
              /\ item["url"] = existing["url"]

\* is_duplicate with the url fallback taken only when the candidate lacks the key
is_duplicate_item_unkeyed(item, existing_items, key) ==
    \E i \in 1..Len(existing_items) :
        \/ /\ Has(item, key) /\ Has(existing_items[i], key)
           /\ item[key] = existing_items[i][key]
        \/ /\ ~Has(item, key)
           /\ Has(item, "url") /\ Has(existing_items[i], "url")
           /\ item["url"] = existing_items[i]["url"]

\* is_duplicate that asks for equal urls as well when both items have one
is_duplicate_both(item, existing_items, key) ==
    \E i \in 1..Len(existing_items) :
        LET existing == existing_items[i] IN
          IF Has(item, key) /\ Has(existing, key)
          THEN /\ item[key] = existing[key]
               /\ (Has(item, "url") /\ Has(existing, "url")
                     => item["url"] = existing["url"])
          ELSE /\ Has(item, "url") /\ Has(existing, "url")
               /\ item["url"] = existing["url"]

\* the loop of is_duplicate from position i on: the first match returns True
RECURSIVE scan_existing(_, _, _, _)
scan_existing(item, existing_items, key, i) ==
    IF i > Len(existing_items) THEN FALSE
    ELSE LET existing == existing_items[i] IN
         IF Has(item, key) /\ Has(existing, key)
         THEN IF item[key] = existing[key] THEN TRUE
              ELSE scan_existing(item, existing_items, key, i + 1)
         ELSE IF Has(item, "url") /\ Has(existing, "url")
         THEN IF item["url"] = existing["url"] THEN TRUE
              ELSE scan_existing(item, existing_items, key, i + 1)
         ELSE scan_existing(item, existing_items, key, i + 1)

is_duplicate(item, existing_items, key) ==
    scan_existing(item, existing_items, key, 1)

\* ---------------------------------------------------------------- merge
\* list.insert(0, item) replaced by list.append(item)
insert_front_append(item, list) == Append(list, item)

insert_front(item, list) == <<item>> \o list

\* one iteration of the loop `for video in new_videos`
merge_one(item, existing_items, key) ==
    IF ~is_duplicate(item, existing_items, key)
    THEN [items |-> insert_front(item, existing_items), n |-> 1]
    ELSE [items |-> existing_items, n |-> 0]

\* the whole loop: candidates in input order against the growing list
RECURSIVE merge_from(_, _, _, _, _)
merge_from(candidates, existing_items, key, i, n) ==
    IF i > Len(candidates) THEN [items |-> existing_items, n |-> n]
    ELSE LET r == merge_one(candidates[i], existing_items, key) IN
         merge_from(candidates, r.items, key, i + 1, n + r.n)

merge(candidates, existing_items, key) ==
    merge_from(candidates, existing_items, key, 1, 0)

\* ---------------------------------------------------------------- store
NULL == <<>>

isoformat(t) == <<"iso", t>>

strftime_date(t) == t \div TicksPerDay

FreshStore ==
    [quotes |-> <<>>, articles |-> <<>>, videos |-> <<>>, last_updated |-> NULL]

FileAbsent == [state |-> "absent", content |-> FreshStore]

FileCorrupt == [state |-> "corrupt", content |-> FreshStore]

load_existing_data(f) ==
    IF f.state = "absent" THEN [raised |-> FALSE, data |-> FreshStore]
    ELSE IF f.state = "valid" THEN [raised |-> FALSE, data |-> f.content]
    ELSE [raised |-> TRUE, data |-> FreshStore]

save_data(d, t) ==
    [state |-> "valid", content |-> [d EXCEPT !.last_updated = isoformat(t)]]

\* `if new_items >= 0` in place of `if new_items > 0`
should_save_always(n) == n >= 0

should_save(n) == n > 0

\* -------------------------------------------------------------- adapters
InstagramUrl == "https://www.instagram.com/sadhguru/"

fetch_daily_quote(t) ==
    [content |-> <<"Daily wisdom from Sadhguru - ", strftime_date(t)>>,
     source |-> "Instagram @sadhguru",
     url |-> InstagramUrl,
     date |-> strftime_date(t),
     type |-> "quote"]

ApiItems == [title : Titles, videoId : VideoIds]

ApiOutcomes ==
    {[raises |-> TRUE, items |-> <<>>]} \cup
    {[raises |-> FALSE, items |-> r] : r \in SeqsUpTo(ApiItems, MaxResp)}

video_of(it) ==
    [title |-> it.title,
     url |-> <<"https://www.youtube.com/watch?v=", it.videoId>>,
     source |-> "YouTube Official",
     type |-> "video"]

\* fetch_recent_youtube_videos without the try/except around the query
fetch_recent_youtube_videos_uncaught(api_key, api) ==
    IF ~api_key THEN [raised |-> FALSE, videos |-> <<>>]
    ELSE IF api.raises THEN [raised |-> TRUE, videos |-> <<>>]
    ELSE [raised |-> FALSE,
          videos |-> [i \in 1..Len(api.items) |-> video_of(api.items[i])]]

fetch_recent_youtube_videos(api_key, api) ==
    IF ~api_key THEN [raised |-> FALSE, videos |-> <<>>]
    ELSE IF api.raises THEN [raised |-> FALSE, videos |-> <<>>]
    ELSE [raised |-> FALSE,
          videos |-> [i \in 1..Len(api.items) |-> video_of(api.items[i])]]

fetch_recent_articles == <<>>

\* ================================================================ state
VARIABLES
    \* the updater
    pc,               \* position of the run in smart_update
    now,              \* the clock, in ticks
    YOUTUBE_API_KEY,  \* TRUE iff the credential is set for this process
    DATA_FILE,        \* the persisted file
    data,             \* the store in memory
    new_items,        \* the counter of additions
    video_env,        \* what the video adapter met in this run
    loaded,           \* the store as loaded by this run
    file_at_load,     \* the file as it was when this run started
    saves,            \* calls of save_data in this run
    run_dates,        \* dates on which a run carried out its quote step
    \* the merge loop
    key, cands, existing, start, lst, prev, idx, pass, added, accepted

run_vars == <<pc, now, YOUTUBE_API_KEY, DATA_FILE, data, new_items,
              video_env, loaded, file_at_load, saves, run_dates>>

merge_vars == <<key, cands, existing, start, lst, prev, idx, pass, added,
                accepted>>

vars == <<run_vars, merge_vars>>

\* ------------------------------------------------------------ the updater
RunInit ==
    /\ pc = "start"
    /\ now = 0
    /\ YOUTUBE_API_KEY \in BOOLEAN
    /\ DATA_FILE \in {FileAbsent, FileCorrupt}
    /\ data = FreshStore
    /\ new_items = 0
    /\ video_env = "none"
    /\ loaded = FreshStore
    /\ file_at_load = DATA_FILE
    /\ saves = 0
    /\ run_dates = {}

MergeIdle ==
    /\ key = "content" /\ cands = <<>> /\ existing = <<>> /\ start = <<>>
    /\ lst = <<>> /\ prev = <<>> /\ idx = 0 /\ pass = 1 /\ added = 0
    /\ accepted = <<>>

Init == RunInit /\ MergeIdle

\* data = load_existing_data(); new_items = 0
Load ==
    /\ pc = "start"
    /\ LET r == load_existing_data(DATA_FILE) IN
         /\ pc' = IF r.raised THEN "aborted" ELSE "quote"
         /\ data' = r.data
         /\ loaded' = r.data
    /\ new_items' = 0
    /\ file_at_load' = DATA_FILE
    /\ UNCHANGED <<now, YOUTUBE_API_KEY, DATA_FILE, video_env, saves,
                   run_dates>>

\* 1. the quote of the day
QuoteStep ==
    /\ pc = "quote"
    /\ LET daily_quote == fetch_daily_quote(now)
           r == merge_one(daily_quote, data.quotes, "content") IN
         /\ data' = [data EXCEPT !.quotes = r.items]
         /\ new_items' = new_items + r.n
    /\ run_dates' = run_dates \cup {strftime_date(now)}
    /\ pc' = "videos"
    /\ UNCHANGED <<now, YOUTUBE_API_KEY, DATA_FILE, video_env, loaded,
                   file_at_load, saves>>

\* 2. the videos of the last 24 hours
VideoStep ==
    /\ pc = "videos"
    /\ \E api \in ApiOutcomes :
         LET f == fetch_recent_youtube_videos(YOUTUBE_API_KEY, api)
             r == merge(f.videos, data.videos, "url") IN
           /\ video_env' = IF ~YOUTUBE_API_KEY THEN "nokey"
                           ELSE IF api.raises THEN "raised" ELSE "ok"
           /\ IF f.raised
              THEN /\ pc' = "aborted"
                   /\ UNCHANGED <<data, new_items>>
              ELSE /\ pc' = "articles"
                   /\ data' = [data EXCEPT !.videos = r.items]
                   /\ new_items' = new_items + r.n
    /\ UNCHANGED <<now, YOUTUBE_API_KEY, DATA_FILE, loaded, file_at_load,
                   saves, run_dates>>

\* 3. the articles
ArticleStep ==
    /\ pc = "articles"
    /\ LET r == merge(fetch_recent_articles, data.articles, "url") IN
         /\ data' = [data EXCEPT !.articles = r.items]
         /\ new_items' = new_items + r.n
    /\ pc' = "save"
    /\ UNCHANGED <<now, YOUTUBE_API_KEY, DATA_FILE, video_env, loaded,
                   file_at_load, saves, run_dates>>

\* if new_items > 0: save_data(data)
SaveStep ==
    /\ pc = "save"
    /\ IF should_save(new_items)
       THEN /\ DATA_FILE' = save_data(data, now)
            /\ data' = DATA_FILE'.content
            /\ saves' = saves + 1
       ELSE UNCHANGED <<DATA_FILE, data, saves>>
    /\ pc' = "done"
    /\ UNCHANGED <<now, YOUTUBE_API_KEY, new_items, video_env, loaded,
                   file_at_load, run_dates>>

smart_update == Load \/ QuoteStep \/ VideoStep \/ ArticleStep \/ SaveStep

\* the next invocation of the script, at a later time
NextRun ==
    /\ pc \in {"done", "aborted"}
    /\ now < MaxClock
    /\ now' \in (now + 1)..MaxClock
    /\ YOUTUBE_API_KEY' \in BOOLEAN
    /\ pc' = "start"
    /\ data' = FreshStore
    /\ loaded' = FreshStore
    /\ new_items' = 0
    /\ video_env' = "none"
    /\ saves' = 0
    /\ file_at_load' = DATA_FILE
    /\ UNCHANGED <<DATA_FILE, run_dates>>

Next ==
    \/ Load /\ UNCHANGED merge_vars
    \/ QuoteStep /\ UNCHANGED merge_vars
    \/ VideoStep /\ UNCHANGED merge_vars
    \/ ArticleStep /\ UNCHANGED merge_vars
    \/ SaveStep /\ UNCHANGED merge_vars
    \/ NextRun /\ UNCHANGED merge_vars

Spec == Init /\ [][Next]_vars

FairSpec == Spec /\ WF_vars(smart_update /\ UNCHANGED merge_vars)

\* --------------------------------------------------------- the merge loop
RunIdle ==
    /\ pc = "start" /\ now = 0 /\ YOUTUBE_API_KEY = FALSE
    /\ DATA_FILE = FileAbsent /\ data = FreshStore /\ new_items = 0
    /\ video_env = "none" /\ loaded = FreshStore
    /\ file_at_load = FileAbsent /\ saves = 0 /\ run_dates = {}

MergeInit ==
    /\ key \in Keys
    /\ existing \in SeqsUpTo(Items, MaxExisting)
    /\ cands \in SeqsUpTo(Items, MaxCands)
    /\ start = existing
    /\ lst = existing
    /\ prev = existing
    /\ idx = 0
    /\ pass = 1
    /\ added = 0
    /\ accepted = <<>>
    /\ RunIdle

\* one candidate: the is_duplicate check, then the prepend
MergeStep ==
    /\ idx < Len(cands)
    /\ LET r == merge_one(cands[idx + 1], lst, key) IN
         /\ lst' = r.items
         /\ added' = added + r.n
         /\ accepted' = IF r.n = 1 THEN Append(accepted, cands[idx + 1])
                        ELSE accepted
    /\ prev' = lst
    /\ idx' = idx + 1
    /\ UNCHANGED <<key, cands, existing, start, pass>>

\* the same candidates once more, against the list the first merge left
MergeAgain ==
    /\ idx = Len(cands)
    /\ pass = 1
    /\ pass' = 2
    /\ idx' = 0
    /\ start' = lst
    /\ prev' = lst
    /\ added' = 0
    /\ accepted' = <<>>
    /\ UNCHANGED <<key, cands, existing, lst>>

MergeNext ==
    \/ MergeStep /\ UNCHANGED run_vars
    \/ MergeAgain /\ UNCHANGED run_vars

MergeSpec == MergeInit /\ [][MergeNext]_vars

\* =============================================================== claims
Total(d) == Len(d.quotes) + Len(d.videos) + Len(d.articles)

LastCand == cands[idx]

KeyMatch(item, e, k) == Has(item, k) /\ Has(e, k) /\ item[k] = e[k]

Keyed(item, k) == Has(item, k) \/ Has(item, "url")

NoDupKey(list, k) ==
    \A i, j \in 1..Len(list) :
        i # j => ~KeyMatch(list[i], list[j], k)

\* C1 (as stated): whatever the candidates, the existing list and the key,
\* the second merge of the same candidates adds no item.
C1_SecondMergeAddsNothing == pass = 2 => added = 0

\* C1 (amended): when every candidate has the dedup key or a url, the second
\* merge of the same candidates adds no item and leaves the list as it was.
C1_SecondMergeAddsNothingKeyed ==
    (\A i \in 1..Len(cands) : Keyed(cands[i], key))
        => (pass = 2 => added = 0 /\ lst = start)

C1_Witness ==
    /\ pass = 2 /\ idx = Len(cands) /\ Len(cands) = 2
    /\ \A i \in 1..Len(cands) : Keyed(cands[i], key)
    /\ Len(start) = Len(existing) + 2
    /\ added = 0

\* C2 (as stated): a candidate whose url equals the url of some existing item
\* is not added, whatever the primary key says.
C2_UrlMatchAlwaysDuplicate ==
    (idx > 0 /\ \E e \in Range(prev) : KeyMatch(LastCand, e, "url"))
        => lst = prev

\* C2 (amended): a candidate whose url equals the url of some existing item
\* is not added when the dedup key is missing from the candidate or from that
\* existing item.
C2_UrlFallback ==
    (idx > 0 /\ \E e \in Range(prev) :
                    /\ KeyMatch(LastCand, e, "url")
                    /\ ~(Has(LastCand, key) /\ Has(e, key)))
        => lst = prev

C2_Witness ==
    /\ idx > 0 /\ key = "content" /\ Has(LastCand, "content")
    /\ \E e \in Range(prev) :
          KeyMatch(LastCand, e, "url") /\ ~Has(e, "content")
    /\ \A e \in Range(prev) : ~KeyMatch(LastCand, e, "content")
    /\ lst = prev

\* C3: in the store in memory and in the persisted file, no two quotes have
\* the same content, no two videos the same url, no two articles the same url.
C3_NoDuplicateKey ==
    \A d \in {data, DATA_FILE.content} :
        /\ NoDupKey(d.quotes, "content")
        /\ NoDupKey(d.videos, "url")
        /\ NoDupKey(d.articles, "url")

C3_Witness ==
    /\ pc = "done" /\ video_env = "ok" /\ saves = 0
    /\ Len(DATA_FILE.content.videos) = 2
    /\ Len(DATA_FILE.content.quotes) = 2

\* C4: a run saves nothing before its three merge steps are over; a run that
\* added no item saves nothing and leaves the file as it found it; a run that
\* added an item saves exactly once, with last_updated set to the current time.
C4_SaveOncePerRun ==
    /\ pc \in {"quote", "videos", "articles", "save", "aborted"}
          => saves = 0 /\ DATA_FILE = file_at_load
    /\ pc = "done" /\ Total(data) = Total(loaded)
          => saves = 0 /\ DATA_FILE = file_at_load
    /\ pc = "done" /\ Total(data) > Total(loaded)
          => /\ saves = 1
             /\ DATA_FILE.state = "valid"
             /\ DATA_FILE.content = data
             /\ DATA_FILE.content.last_updated = isoformat(now)
             /\ DATA_FILE.content.last_updated # NULL
             /\ DATA_FILE.content.last_updated # file_at_load.content.last_updated

C4_Witness ==
    /\ pc = "done" /\ saves = 0 /\ Total(data) = Total(loaded)
    /\ DATA_FILE.state = "valid"
    /\ DATA_FILE.content.last_updated # isoformat(now)
    /\ DATA_FILE.content.last_updated # NULL

\* C5 (as stated): a run that found the file absent or unreadable does not
\* abort and works on a fresh store.
C5_LoadNeverFails ==
    (pc # "start" /\ file_at_load.state \in {"absent", "corrupt"})
        => (pc # "aborted" /\ loaded = FreshStore)

\* C6: once the video adapter has met an unset credential or a failing query,
\* the run has done its quote step, has not aborted, has the videos it loaded,
\* and goes on to its end.
C6_VideoFailureIsolated ==
    [](video_env \in {"nokey", "raised"}
         => /\ pc # "aborted"
            /\ data.videos = loaded.videos
            /\ strftime_date(now) \in run_dates
            /\ <>(pc = "done"))

C6_Witness ==
    /\ pc = "done" /\ video_env = "raised"
    /\ Len(data.videos) > 0 /\ data.videos = loaded.videos
    /\ saves = 1

\* C7: the list is the accepted candidates, last accepted first, followed by
\* the list the merge started from.
C7_PrependOrder == lst = Reverse(accepted) \o start

C7_Witness ==
    /\ pass = 1 /\ existing = <<>> /\ idx = 2 /\ cands[1] # cands[2]
    /\ accepted = cands
    /\ lst = <<cands[2], cands[1]>>

\* C8: a candidate with neither the dedup key nor a url is added, whatever the
\* existing list holds.
C8_UnkeyedAlwaysAdded ==
    (idx > 0 /\ ~Has(LastCand, key) /\ ~Has(LastCand, "url"))
        => lst = <<LastCand>> \o prev

C8_Witness ==
    /\ idx > 0 /\ ~Has(LastCand, key) /\ ~Has(LastCand, "url")
    /\ \E e \in Range(prev) : e = LastCand
    /\ \E e \in Range(prev) : Has(e, key)
    /\ lst = <<LastCand>> \o prev

\* C9: a candidate whose dedup key equals that of some existing item is not
\* added, whatever their urls.
C9_PrimaryKeyDuplicate ==
    (idx > 0 /\ \E e \in Range(prev) : KeyMatch(LastCand, e, key))
        => lst = prev

C9_Witness ==
    /\ idx > 0 /\ key = "content"
    /\ \E e \in Range(prev) :
          /\ KeyMatch(LastCand, e, "content")
          /\ Has(LastCand, "url") /\ Has(e, "url")
          /\ LastCand["url"] # e["url"]
    /\ \A e \in Range(prev) : ~KeyMatch(LastCand, e, "url")
    /\ lst = prev

\* C10: the quote step puts the quote of the current date in front of the
\* quotes when none of them has that date and leaves them alone otherwise; at
\* the end of a run the persisted quotes are one per date on which a run took
\* place.
QuoteDates(qs) == {qs[i].date : i \in 1..Len(qs)}

C10_OneQuotePerRunDate ==
    /\ pc \in {"videos", "articles", "save", "done"}
          => data.quotes =
                IF strftime_date(now) \in QuoteDates(loaded.quotes)
                THEN loaded.quotes
                ELSE <<fetch_daily_quote(now)>> \o loaded.quotes
    /\ pc = "done"
          => /\ QuoteDates(DATA_FILE.content.quotes) = run_dates
             /\ Len(DATA_FILE.content.quotes) = Cardinality(run_dates)
             /\ \A i \in 1..Len(DATA_FILE.content.quotes) :
                   DATA_FILE.content.quotes[i].url = InstagramUrl

C10_Witness ==
    /\ pc = "done"
    /\ Len(DATA_FILE.content.quotes) = 2
    /\ data.quotes = loaded.quotes
    /\ strftime_date(now) \in QuoteDates(loaded.quotes)

====
